---- MODULE Spec2Model ----
(***************************************************************************)
(* WebFetch.MCP (src/server.mjs): the call admission controller            *)
(* (checkCallLimit), the per-hostname pacing gate (getRateLimitDelay /     *)
(* updateRequestTime) and the two tool handlers (handleWebSearch,          *)
(* handleWebFetch) as a state machine over a millisecond clock.            *)
(*                                                                         *)
(* A tool call occupies a slot.  The handlers are async functions: every   *)
(* action below is one synchronous run of a handler between two awaits     *)
(* (JavaScript runs it without interleaving), and the awaits are the       *)
(* places where other calls and the clock may move.  Timers (setTimeout)   *)
(* fire at or after their due time.                                        *)
(***************************************************************************)
EXTENDS Integers, Sequences, FiniteSets, TLC

\* ---------------------------------------------------------------- constants
RATE_LIMIT_WINDOW_MS == 300000
MAX_CALLS_PER_WINDOW == 12
BURST_LIMIT == 8
BURST_WINDOW_MS == 30000
RATE_LIMIT_DELAY == 1000

\* ------------------------------------------------------------------- bounds
\* Date.now() when the server starts (any value past the first second).
Epoch == 1000000
\* Call records the history may hold when a further tool call is started.
MaxRecords == 13
MaxRecordsPacing == 3
MaxRecordsContent == 1
MaxRecordsSearch == 3
MaxRecordsLive == 3
MaxRecordsMixed == 3
\* Slots: tool calls in flight at once.  Spec runs the calls one after the
\* other: checkCallLimit is synchronous and is the only writer of the call
\* history, so the history depends on the order of the checks alone.
Slots == {1, 2}
QuotaSlots == {1}

\* The clock readings followed, as offsets from Epoch.  Spec follows the
\* quota windows (a reading exactly at, just past and well inside each
\* window's edge); SpecPacing follows the pacing gate and the timers.
QuotaOffsets == {0, 30000, 60001, 90000, 300000}
PacingOffsets == {0, 500, 1000, 1500, 3500}
ContentOffsets == {1000}
WindowOffsets == {0, 29001, 30000, 240000, 330000}
SearchOffsets == {15000}
LiveOffsets == {2000}

\* Math.random() * 1000 + 500 and 2000 + Math.random() * 3000, sampled.
HumanDelays == {500, 1000}
RetryDelays == {2000, 4500}

\* --------------------------------------------------------------------- text
\* A string is kept as its runs of equal UTF-16 code units:
\* <<[ch |-> code unit, n |-> length of the run], ...>>.
Run(ch, n) == <<[ch |-> ch, n |-> n]>>

RECURSIVE Sum(_)
Sum(ns) == IF ns = <<>> THEN 0 ELSE ns[1] + Sum(Tail(ns))

\* s.length
Length(s) == Sum([i \in 1..Len(s) |-> s[i].n])

\* /\s/
IsSpace(ch) ==
  ch \in {9, 10, 11, 12, 13, 32, 160, 5760, 8232, 8233, 8239, 8287, 12288, 65279}
         \cup (8192..8202)

\* /[\x00-\x08\x0E-\x1F\x7F-\xFF]/
IsBinary(ch) == ch \in (0..8) \cup (14..31) \cup (127..255)

\* The complement of /[^\x20-\x7E\n\r\t]/
IsPrintable(ch) == ch \in (32..126) \cup {10, 13, 9}

\* (html.match(binaryPattern) || []).length
BinaryMatches(s) == Sum([i \in 1..Len(s) |-> IF IsBinary(s[i].ch) THEN s[i].n ELSE 0])

\* s.replace(/[^\x20-\x7E\n\r\t]/g, '').length
CleanLength(s) == Sum([i \in 1..Len(s) |-> IF IsPrintable(s[i].ch) THEN s[i].n ELSE 0])

RECURSIVE TrimStart(_)
TrimStart(s) ==
  IF s = <<>> THEN s
  ELSE IF IsSpace(s[1].ch) THEN TrimStart(Tail(s)) ELSE s

RECURSIVE TrimEnd(_)
TrimEnd(s) ==
  IF s = <<>> THEN s
  ELSE IF IsSpace(s[Len(s)].ch) THEN TrimEnd(SubSeq(s, 1, Len(s) - 1)) ELSE s

\* s.trim()
Trim(s) == TrimEnd(TrimStart(s))

\* s.replace(/\s+/g, " ")
RECURSIVE CollapseSpaces(_)
CollapseSpaces(s) ==
  IF s = <<>> THEN s
  ELSE IF IsSpace(s[1].ch) THEN Run(32, 1) \o CollapseSpaces(TrimStart(s))
  ELSE <<s[1]>> \o CollapseSpaces(Tail(s))

\* s.slice(0, max), max >= 0
RECURSIVE Slice(_, _)
Slice(s, max) ==
  IF s = <<>> \/ max <= 0 THEN <<>>
  ELSE IF s[1].n >= max THEN Run(s[1].ch, max)
  ELSE <<s[1]>> \o Slice(Tail(s), max - s[1].n)

\* String(s ?? "").replace(/\s+/g, " ").trim().slice(0, max)
safeText(s, max) == Slice(Trim(CollapseSpaces(s)), max)

\* paragraphs.join("\n\n")
RECURSIVE Join(_)
Join(ts) ==
  IF ts = <<>> THEN <<>>
  ELSE IF Len(ts) = 1 THEN ts[1]
  ELSE ts[1] \o Run(10, 2) \o Join(Tail(ts))

\* n letters; the same between some whitespace, as markup leaves it.
Letters(n) == Run(97, n)
Padded(n) == Run(10, 1) \o Run(32, 4) \o Run(97, n) \o Run(10, 2)
\* n CJK characters.
Wide(n) == Run(20013, n)

\* ------------------------------------------------------------------- inputs
Hosts == {"a", "b"}
NoUrl == [scheme |-> "none", host |-> "", path |-> ""]
Urls ==
  { NoUrl,
    [scheme |-> "malformed", host |-> "", path |-> ""],
    [scheme |-> "ftp", host |-> "a", path |-> "/"],
    [scheme |-> "http", host |-> "a", path |-> "/"],
    [scheme |-> "https", host |-> "b", path |-> "/"] }
QuotaUrls ==
  { NoUrl, [scheme |-> "malformed", host |-> "", path |-> ""],
    [scheme |-> "ftp", host |-> "a", path |-> "/"],
    [scheme |-> "http", host |-> "a", path |-> "/"] }
\* The url arguments that end a call in an input error.
ErrorUrls ==
  { NoUrl, [scheme |-> "malformed", host |-> "", path |-> ""],
    [scheme |-> "ftp", host |-> "a", path |-> "/"] }
WindowUrls == {[scheme |-> "http", host |-> "a", path |-> "/"]}
PacingUrls ==
  { [scheme |-> "http", host |-> "a", path |-> "/"],
    [scheme |-> "https", host |-> "b", path |-> "/"] }
LiveUrls == {NoUrl, [scheme |-> "http", host |-> "a", path |-> "/"]}
\* validUrl.pathname of the pages fetched in SpecContent.
Paths == {"/", "/paper.pdf", "/REPORT.PDF", "/notes.txt"}
ContentUrls == {[scheme |-> "http", host |-> "a", path |-> p] : p \in Paths}
\* max_chars is read from the caller's arguments (default 20000).
DefaultMaxChars == {20000}
MaxCharsArgs == {1000, 20000}
\* retry_count is read from the caller's arguments.
RetryArgs == {0, 1}
Queries == {"", "q"}
\* The query argument missing.
NoQuery == {""}

\* What the origin answers: a status and, for 200, the class of the page.
\* Every non-ok status of the inputs.
RetryStatuses_all == {403, 404, 429, 500, 502, 503, 504}
RetryStatuses == {429, 503, 502, 504}
\* The statuses and page classes the origins of the model answer with.
ErrorStatuses == {403, 404, 429, 500, 502, 503, 504}
\* response.headers.get('content-type') || '', and what includes() finds in it.
ContentTypes ==
  { "", "text/plain", "text/html; charset=utf-8", "application/xhtml+xml",
    "application/pdf", "image/png", "video/mp4", "audio/mpeg" }
Includes(contentType, needle) ==
  needle \in
    CASE contentType = "text/html; charset=utf-8" -> {"text/html"}
      [] contentType = "application/xhtml+xml" -> {"application/xhtml", "application/"}
      [] contentType = "application/pdf" -> {"application/"}
      [] contentType = "image/png" -> {"image/"}
      [] contentType = "video/mp4" -> {"video/"}
      [] contentType = "audio/mpeg" -> {"audio/"}
      [] OTHER -> {}

\* response.text(): plain markup; control characters at exactly 10% and
\* above it; high bytes above 10%; CJK text; an empty body.
Bodies ==
  { Letters(40), Letters(36) \o Run(0, 4), Letters(35) \o Run(0, 5),
    Letters(8) \o Run(233, 2), Wide(40), <<>> }

\* What JSDOM and Readability give for the body: document.title,
\* reader.parse(), the elements the content selectors match (in the order
\* of the scan) with their textContent, document.body.textContent and the
\* textContent of the <p> elements.
Titles == {<<>>, Letters(5)}
NoArticle == [found |-> FALSE, title |-> <<>>, byline |-> <<>>, textContent |-> <<>>]
Articles ==
  { NoArticle,
    [found |-> TRUE, title |-> Letters(7), byline |-> <<>>, textContent |-> Letters(50)],
    [found |-> TRUE, title |-> Letters(7), byline |-> <<>>, textContent |-> Padded(100)],
    [found |-> TRUE, title |-> <<>>, byline |-> Letters(6), textContent |-> Padded(101)],
    [found |-> TRUE, title |-> Letters(7), byline |-> <<>>, textContent |-> Padded(1200)],
    [found |-> TRUE, title |-> Letters(7), byline |-> <<>>, textContent |-> Wide(300)],
    [found |-> TRUE, title |-> Letters(7), byline |-> <<>>,
     textContent |-> Letters(45) \o Wide(60)] }
RegionLists ==
  { <<>>,
    <<[selector |-> "main", text |-> Letters(500)]>>,
    <<[selector |-> "main", text |-> Padded(500)]>>,
    <<[selector |-> "main", text |-> Padded(500)],
      [selector |-> "article", text |-> Padded(600)]>>,
    <<[selector |-> "main", text |-> Wide(500)]>>,
    <<[selector |-> "main", text |-> Letters(200)]>>,
    <<[selector |-> "main", text |-> Run(32, 450) \o Letters(60)]>>,
    <<[selector |-> "main", text |-> Run(32, 450) \o Letters(60)],
      [selector |-> "article", text |-> Padded(300)]>>,
    <<[selector |-> "article", text |-> Padded(1200)]>> }
\* document.body.textContent and the <p> texts of a page without a
\* qualifying region.
Fallbacks ==
  { [bodyText |-> <<>>, paragraphs |-> <<>>],
    [bodyText |-> Padded(150), paragraphs |-> <<>>],
    [bodyText |-> Letters(99), paragraphs |-> <<Letters(20), Padded(60), Letters(50)>>],
    [bodyText |-> Letters(99), paragraphs |-> <<Letters(50), Letters(48)>>],
    [bodyText |-> Wide(150), paragraphs |-> <<>>],
    [bodyText |-> Wide(99), paragraphs |-> <<Wide(60), Wide(50)>>] }
NoDoc ==
  [ parses |-> TRUE, title |-> <<>>, article |-> NoArticle, regions |-> <<>>,
    bodyText |-> <<>>, paragraphs |-> <<>> ]
\* new JSDOM(html) throws.
CrashDoc == [NoDoc EXCEPT !.parses = FALSE]
Docs ==
  { [ parses |-> TRUE, title |-> t, article |-> a, regions |-> r,
      bodyText |-> f.bodyText, paragraphs |-> f.paragraphs ] :
      t \in Titles, a \in Articles, r \in RegionLists, f \in Fallbacks }
    \cup {CrashDoc}

NoPage == [contentType |-> "", html |-> <<>>, doc |-> NoDoc]
HtmlPage ==
  [ contentType |-> "text/html; charset=utf-8", html |-> Letters(40),
    doc |-> [NoDoc EXCEPT !.title = Letters(5),
                          !.article = [found |-> TRUE, title |-> Letters(7),
                                       byline |-> <<>>,
                                       textContent |-> Padded(101)]] ]
PdfPage == [contentType |-> "application/pdf", html |-> Letters(35) \o Run(0, 5), doc |-> NoDoc]
Pages == {HtmlPage, PdfPage}
\* Every content type with every body, and every document behind the
\* content types that reach the DOM.
ContentPages ==
  {[contentType |-> ct, html |-> h, doc |-> d] :
     ct \in ContentTypes, h \in Bodies, d \in {NoDoc, CrashDoc, HtmlPage.doc}}
  \cup
  {[contentType |-> ct, html |-> h, doc |-> d] :
     ct \in {"text/html; charset=utf-8", "text/plain"},
     h \in {Letters(40), Wide(40)}, d \in Docs}
Timeout == [status |-> 0, page |-> NoPage]
NoResponse == [status |-> -1, page |-> NoPage]
FetchResponses ==
  {[status |-> s, page |-> NoPage] : s \in ErrorStatuses}
    \cup {[status |-> 200, page |-> p] : p \in Pages}
    \cup {Timeout}
\* SpecPacing's origins: a page, a terminal error, a transient error.
PacingResponses ==
  { [status |-> 200, page |-> HtmlPage], [status |-> 404, page |-> NoPage],
    [status |-> 503, page |-> NoPage] }
\* SpecLive's origins: an HTML page with nothing to extract, a PDF file, a
\* terminal error, a transient error, a timeout.
LiveResponses ==
  { [status |-> 200, page |-> [HtmlPage EXCEPT !.doc = NoDoc]],
    [status |-> 200, page |-> PdfPage],
    [status |-> 404, page |-> NoPage], [status |-> 503, page |-> NoPage],
    Timeout }
\* SpecWindows' origins: a page, a transient error.
WindowResponses == {[status |-> 200, page |-> HtmlPage], [status |-> 503, page |-> NoPage]}
\* SpecContent's origins: pages, a terminal error, a timeout.
ContentResponses ==
  {[status |-> 200, page |-> p] : p \in ContentPages}
    \cup {[status |-> 404, page |-> NoPage], Timeout}

\* "No title"
NoTitle ==
  Run(78, 1) \o Run(111, 1) \o Run(32, 1) \o Run(116, 1) \o Run(105, 1)
    \o Run(116, 1) \o Run(108, 1) \o Run(101, 1)
\* The k-th result of the backend; every third one has no title.
Item(k) ==
  [ title |-> IF k % 3 = 0 THEN <<>> ELSE Padded(k), url |-> k,
    content |-> Padded(2 * k), engine |-> "e" ]
\* What the backend's fetch comes to: a rejection, a non-ok status, a body
\* that is not JSON, or data.results with n items.
SearchFailures ==
  {[kind |-> k, results |-> <<>>] : k \in {"throw", "http_error", "bad_json"}}
Results(n) == [kind |-> "json", results |-> [k \in 1..n |-> Item(k)]]
SearchOutcomes == SearchFailures \cup {Results(0), Results(1)}
SearchBackends == SearchFailures \cup {Results(n) : n \in {0, 1, 3, 5, 6, 21}}
\* limit = 5 when the caller passes none.
DefaultLimit == {5}
LimitArgs == {0, 1, 3, 5, 20}

\* -------------------------------------------------------------------- state
VARIABLES
  now,           \* Date.now()
  callHistory,   \* timestamps of admitted calls, in push order
  requestTimes,  \* hostname -> time of the last gate pass (0: no entry)
  call,          \* slot -> the tool call running in it
  lastSend,      \* hostname -> time the last request to it was sent (0: none)
  solo,          \* slot -> no other call was in flight during this call
  lastCheck      \* the latest verdict of checkCallLimit, the burst denial
                 \* (if it was one) of the check before it, and the time
                 \* the latest tool call arrived

vars == <<now, callHistory, requestTimes, call, lastSend, solo, lastCheck>>

NoCheck == [limited |-> FALSE, kind |-> "none", wait |-> 0, warning |-> "none", left |-> 0]
\* The response of a call: what it says, how many text items its content
\* holds, and the way the handler was left ("return", "catch": returned
\* from its catch block, "throw": left by an exception).
NoResult == [kind |-> "none", code |-> 0, content |-> 0, via |-> "none"]
\* The formatted search results: the numbered entries and "Found n results".
NoSearch == [entries |-> <<>>, found |-> 0]
\* The article returned and the path through the content handling: the
\* steps run, the stage the body comes from, the text the region scan kept,
\* the parts of the composed output, and the page title that the messages
\* of a failed extraction name.
NoExtract ==
  [ ran |-> {}, stage |-> "none", kept |-> <<>>, title |-> <<>>,
    byline |-> <<>>, body |-> <<>>, text |-> <<>>, pageTitle |-> <<>> ]

NotBurst == [kind |-> "none", at |-> 0, burstBefore |-> 0, callAt |-> 0]
\* fresh: the check is the first of its tool call, which so arrived at t.
Observed(chk, t, last, fresh) ==
  [ kind |-> chk.kind, at |-> t,
    burstBefore |-> IF last.kind = "burst" THEN last.at ELSE 0,
    callAt |-> IF fresh THEN t ELSE last.callAt ]

IdleCall ==
  [ pc |-> "idle", tool |-> "none", url |-> NoUrl, retry_count |-> 0,
    wake |-> 0, limitCheck |-> NoCheck, first |-> NoResponse,
    upnext |-> NoResponse, checks |-> 0, recs |-> 0, gates |-> 0,
    reqs |-> 0, max_chars |-> 20000, extract |-> NoExtract,
    limit |-> 5, data |-> <<>>, search |-> NoSearch,
    result |-> NoResult ]

InFlight(c) == call[c].pc \notin {"idle", "done"}

Init ==
  /\ now = Epoch
  /\ callHistory = <<>>
  /\ requestTimes = [h \in Hosts |-> 0]
  /\ call = [c \in Slots |-> IdleCall]
  /\ lastSend = [h \in Hosts |-> 0]
  /\ solo = [c \in Slots |-> TRUE]
  /\ lastCheck = NotBurst

\* --------------------------------------------------------- checkCallLimit
\* Rounding down where the code rounds up.
Ceil_floor(a, b) == a \div b

\* Math.ceil(a / b)
Ceil(a, b) == IF a % b = 0 THEN a \div b ELSE (a \div b) + 1

\* The newest record in place of the oldest.
RECURSIVE SeqMin_newest(_)
SeqMin_newest(s) ==
  IF Len(s) = 1 THEN s[1]
  ELSE LET m == SeqMin_newest(Tail(s)) IN IF s[1] > m THEN s[1] ELSE m

\* Math.min(...callHistory)
RECURSIVE SeqMin(_)
SeqMin(s) ==
  IF Len(s) = 1 THEN s[1]
  ELSE LET m == SeqMin(Tail(s)) IN IF s[1] < m THEN s[1] ELSE m

\* The burst count taken over the main window.
RecentCalls_mainWindow(hist, t) ==
  SelectSeq(hist, LAMBDA ts : t - ts < RATE_LIMIT_WINDOW_MS)

RecentCalls(hist, t) == SelectSeq(hist, LAMBDA ts : t - ts < BURST_WINDOW_MS)

\* Nothing is ever dropped.
Pruned_none(hist, t) == hist

Pruned(hist, t) == SelectSeq(hist, LAMBDA ts : t - ts < RATE_LIMIT_WINDOW_MS)

\* Off by one: the limit itself still passes.
BurstLimited_offByOne(recentCalls) == Len(recentCalls) > BURST_LIMIT

BurstLimited(recentCalls) == Len(recentCalls) >= BURST_LIMIT

\* Off by one: the limit itself still passes.
WindowLimited_offByOne(pruned) == Len(pruned) > MAX_CALLS_PER_WINDOW

WindowLimited(pruned) == Len(pruned) >= MAX_CALLS_PER_WINDOW

\* The burst warning before the remaining-calls one.
Warning_burstFirst(remaining, recentCount) ==
  IF recentCount >= BURST_LIMIT - 2
    THEN [warning |-> "quick", left |-> BURST_LIMIT - recentCount]
  ELSE IF remaining <= 2
    THEN [warning |-> "remaining", left |-> remaining]
  ELSE [warning |-> "none", left |-> 0]

\* The warning of an admitted call and the number it names.
Warning(remaining, recentCount) ==
  IF remaining <= 2
    THEN [warning |-> "remaining", left |-> remaining]
  ELSE IF recentCount >= BURST_LIMIT - 2
    THEN [warning |-> "quick", left |-> BURST_LIMIT - recentCount]
  ELSE [warning |-> "none", left |-> 0]

\* The verdict and the call history it leaves.
checkCallLimit(hist, t) ==
  LET pruned == Pruned(hist, t)
      recentCalls == RecentCalls(pruned, t)
      pushed == Append(pruned, t)
      remaining == MAX_CALLS_PER_WINDOW - Len(pushed)
      recentCount == Len(recentCalls) + 1
  IN IF BurstLimited(recentCalls)
       THEN [ history |-> pruned, limited |-> TRUE, kind |-> "burst",
              wait |-> Ceil(BURST_WINDOW_MS - (t - recentCalls[1]), 1000),
              warning |-> "none", left |-> 0 ]
     ELSE IF WindowLimited(pruned)
       THEN [ history |-> pruned, limited |-> TRUE, kind |-> "rate",
              wait |-> Ceil(RATE_LIMIT_WINDOW_MS - (t - SeqMin(pruned)), 60000),
              warning |-> "none", left |-> 0 ]
     ELSE [ history |-> pushed, limited |-> FALSE, kind |-> "ok", wait |-> 0,
            warning |-> Warning(remaining, recentCount).warning,
            left |-> Warning(remaining, recentCount).left ]

\* The handler's local limitCheck: the verdict without the history.
Verdict(chk) ==
  [ limited |-> chk.limited, kind |-> chk.kind, wait |-> chk.wait,
    warning |-> chk.warning, left |-> chk.left ]

\* ------------------------------------------------------------- pacing gate
getRateLimitDelay(times, hostname, t) ==
  LET timeSinceLastRequest == t - times[hostname]
  IN IF timeSinceLastRequest < RATE_LIMIT_DELAY
       THEN RATE_LIMIT_DELAY - timeSinceLastRequest
       ELSE 0

\* One timestamp for all hostnames.
updateRequestTime_global(times, hostname, t) == [h \in DOMAIN times |-> t]

updateRequestTime(times, hostname, t) == [times EXCEPT ![hostname] = t]

\* Retrying whatever the attempt.
ShouldRetry_always(retry_count, status) == status \in RetryStatuses

\* retry_count === 0 && [429, 503, 502, 504].includes(response.status)
ShouldRetry(retry_count, status) == retry_count = 0 /\ status \in RetryStatuses

\* Any URL that parses.
ValidUrl_anyScheme(u) == u.scheme \notin {"none", "malformed"}

\* new URL(url) succeeds and the protocol is http: or https:.
ValidUrl(u) == u.scheme \in {"http", "https"}


\* ------------------------------------------------------------- handlers
\* The CallToolRequestSchema handler's response for a tool handler that
\* returned { content: [{ type: "text", text }] } or threw: its catch turns
\* the exception into a response of the same shape.
Respond(rec, kind, code, via) ==
  [rec EXCEPT !.pc = "done", !.wake = 0,
              !.result = [ kind |-> IF via = "throw" THEN "tool_failed" ELSE kind,
                           code |-> code, content |-> 1, via |-> via ]]

\* return { content: [{ type: "text", text: ... }] }
Finish(rec, kind, code) == Respond(rec, kind, code, "return")

\* The exception leaves the handler.
Caught_rethrow(rec, kind) == Respond(rec, kind, 0, "throw")

\* catch (error) { return { content: [{ type: "text", text: ... }] } }
Caught(rec, kind) == Respond(rec, kind, 0, "catch")

\* fetch(validUrl, ...) is called: the request leaves now.
Dispatch(c, rec) ==
  /\ call' = [call EXCEPT ![c] = [rec EXCEPT !.pc = "fetching", !.wake = 0,
                                             !.reqs = @ + 1]]
  /\ lastSend' = [lastSend EXCEPT ![rec.url.host] = now]

\* updateRequestTime, then the humanization delay of a first attempt.
PassGate(c, rec) ==
  LET passed == [rec EXCEPT !.gates = @ + 1]
  IN /\ requestTimes' = updateRequestTime(requestTimes, rec.url.host, now)
     /\ IF passed.retry_count = 0
          THEN /\ \E h \in HumanDelays :
                    call' = [call EXCEPT ![c] =
                               [passed EXCEPT !.pc = "humanWait", !.wake = now + h]]
               /\ UNCHANGED lastSend
          ELSE Dispatch(c, passed)

\* The url validated before the admission check: an input error leaves no
\* call record.
handleWebFetch_validateFirst(c, rec, u, rc) ==
  LET chk == checkCallLimit(callHistory, now)
      named == [rec EXCEPT !.tool = "web_fetch", !.url = u, !.retry_count = rc]
      entered == [named EXCEPT !.limitCheck = Verdict(chk),
                               !.checks = @ + 1,
                               !.recs = @ + (IF chk.limited THEN 0 ELSE 1)]
      rateLimitDelay == getRateLimitDelay(requestTimes, u.host, now)
  IN IF ~ValidUrl(u)
       THEN /\ call' = [call EXCEPT ![c] =
                          Finish(named, IF u.scheme = "none" THEN "missing_url"
                                        ELSE "invalid_url", 0)]
            /\ UNCHANGED <<callHistory, lastCheck, requestTimes, lastSend>>
     ELSE /\ callHistory' = chk.history
          /\ lastCheck' = Observed(chk, now, lastCheck, rec.checks = 0)
          /\ IF chk.limited
               THEN /\ call' = [call EXCEPT ![c] = Finish(entered, chk.kind, chk.wait)]
                    /\ UNCHANGED <<requestTimes, lastSend>>
             ELSE IF rateLimitDelay > 0
               THEN /\ call' = [call EXCEPT ![c] =
                                  [entered EXCEPT !.pc = "paceWait",
                                                  !.wake = now + rateLimitDelay]]
                    /\ UNCHANGED <<requestTimes, lastSend>>
             ELSE PassGate(c, entered)

\* handleWebFetch from its entry to its first await (or its return).
handleWebFetch(c, rec, u, rc) ==
  LET chk == checkCallLimit(callHistory, now)
      entered == [rec EXCEPT !.tool = "web_fetch", !.url = u, !.retry_count = rc,
                             !.limitCheck = Verdict(chk),
                             !.checks = @ + 1,
                             !.recs = @ + (IF chk.limited THEN 0 ELSE 1)]
      rateLimitDelay == getRateLimitDelay(requestTimes, u.host, now)
  IN /\ callHistory' = chk.history
     /\ lastCheck' = Observed(chk, now, lastCheck, rec.checks = 0)
     /\ IF chk.limited
          THEN /\ call' = [call EXCEPT ![c] = Finish(entered, chk.kind, chk.wait)]
               /\ UNCHANGED <<requestTimes, lastSend>>
        ELSE IF u.scheme = "none"
          THEN /\ call' = [call EXCEPT ![c] = Finish(entered, "missing_url", 0)]
               /\ UNCHANGED <<requestTimes, lastSend>>
        ELSE IF ~ValidUrl(u)
          THEN /\ call' = [call EXCEPT ![c] = Finish(entered, "invalid_url", 0)]
               /\ UNCHANGED <<requestTimes, lastSend>>
        ELSE IF rateLimitDelay > 0
          THEN /\ call' = [call EXCEPT ![c] =
                             [entered EXCEPT !.pc = "paceWait",
                                             !.wake = now + rateLimitDelay]]
               /\ UNCHANGED <<requestTimes, lastSend>>
        ELSE PassGate(c, entered)

\* The search taken through the pacing gate, as a fetch to host a is.
handleWebSearch_paced(c, rec, query, limit) ==
  LET chk == checkCallLimit(callHistory, now)
      entered == [rec EXCEPT !.tool = "web_search", !.limit = limit,
                             !.limitCheck = Verdict(chk),
                             !.checks = @ + 1,
                             !.recs = @ + (IF chk.limited THEN 0 ELSE 1)]
  IN /\ callHistory' = chk.history
     /\ lastCheck' = Observed(chk, now, lastCheck, TRUE)
     /\ call' = [call EXCEPT ![c] =
          IF chk.limited THEN Finish(entered, chk.kind, chk.wait)
          ELSE IF query = "" THEN Finish(entered, "missing_query", 0)
          ELSE [entered EXCEPT !.pc = "searching", !.reqs = @ + 1]]
     /\ requestTimes' = IF chk.limited \/ query = "" THEN requestTimes
                        ELSE updateRequestTime(requestTimes, "a", now)
     /\ UNCHANGED lastSend

\* handleWebSearch from its entry to its fetch of the search backend.
handleWebSearch(c, rec, query, limit) ==
  LET chk == checkCallLimit(callHistory, now)
      entered == [rec EXCEPT !.tool = "web_search", !.limit = limit,
                             !.limitCheck = Verdict(chk),
                             !.checks = @ + 1,
                             !.recs = @ + (IF chk.limited THEN 0 ELSE 1)]
  IN /\ callHistory' = chk.history
     /\ lastCheck' = Observed(chk, now, lastCheck, TRUE)
     /\ call' = [call EXCEPT ![c] =
          IF chk.limited THEN Finish(entered, chk.kind, chk.wait)
          ELSE IF query = "" THEN Finish(entered, "missing_query", 0)
          ELSE [entered EXCEPT !.pc = "searching", !.reqs = @ + 1]]
     /\ UNCHANGED <<requestTimes, lastSend>>

\* ------------------------------------------------------- content handling
\* validUrl.pathname.split('.').pop()?.toLowerCase()
FileExtension(pathname) ==
  CASE pathname \in {"/paper.pdf", "/REPORT.PDF"} -> "pdf"
    [] pathname = "/notes.txt" -> "txt"
    [] OTHER -> pathname

DocumentExtensions == {"pdf", "doc", "docx", "xls", "xlsx", "ppt", "pptx"}

IsHtml(contentType) ==
  Includes(contentType, "text/html") \/ Includes(contentType, "application/xhtml")

\* The binary family told by the file extension alone.
NonHtmlFamily_byExtension(contentType, fileExtension) ==
  IF fileExtension \in DocumentExtensions THEN "document"
  ELSE IF fileExtension \in {"png", "mp4", "mp3"} THEN "binary"
  ELSE "none"

\* The message a non-HTML response is answered with: the document family
\* by file extension, the binary family by content type, or none of them.
NonHtmlFamily(contentType, fileExtension) ==
  IF fileExtension \in DocumentExtensions THEN "document"
  ELSE IF \E needle \in {"application/", "image/", "video/", "audio/"} :
            Includes(contentType, needle)
    THEN "binary"
  ELSE "none"

\* The threshold at one half.
LooksBinary_half(html) ==
  LET binaryMatches == BinaryMatches(html)
  IN binaryMatches > 0 /\ 2 * binaryMatches > Length(html)

\* binaryMatches && binaryMatches.length > html.length * 0.1
LooksBinary(html) ==
  LET binaryMatches == BinaryMatches(html)
  IN binaryMatches > 0 /\ 10 * binaryMatches > Length(html)

\* Any article found is taken.
Sufficient_found(article) == article.found /\ article.textContent # <<>>

\* The threshold at 1000.
Sufficient_long(article) ==
  /\ article.found
  /\ article.textContent # <<>>
  /\ Length(Trim(article.textContent)) > 1000

\* article && article.textContent && article.textContent.trim().length > 100
Sufficient(article) ==
  /\ article.found
  /\ article.textContent # <<>>
  /\ Length(Trim(article.textContent)) > 100

\* The scan of the content selectors: score > bestScore && score > 200.
RECURSIVE BestRegion(_, _)
BestRegion(regions, bestContent) ==
  IF regions = <<>> THEN bestContent
  ELSE LET text == regions[1].text
           score == Length(text)
       IN BestRegion(Tail(regions),
            IF score > Length(bestContent) /\ score > 200 THEN text ELSE bestContent)

Untitled ==
  <<[ch |-> 85, n |-> 1], [ch |-> 110, n |-> 1], [ch |-> 116, n |-> 1],
    [ch |-> 105, n |-> 1], [ch |-> 116, n |-> 1], [ch |-> 108, n |-> 1],
    [ch |-> 101, n |-> 1], [ch |-> 100, n |-> 1]>>
OrElse(s, t) == IF s # <<>> THEN s ELSE t

\* Readability, then the fallbacks: the stages run, the stage the body
\* comes from ("none": nothing meaningful found) and the article.
Extract(doc, max_chars) ==
  LET article == doc.article
      scanned == BestRegion(doc.regions, <<>>)
      useBody == scanned = <<>> \/ Length(Trim(scanned)) < 100
      bestContent == IF useBody THEN doc.bodyText ELSE scanned
      paragraphs ==
        Join(SelectSeq(doc.paragraphs, LAMBDA text : Length(Trim(text)) > 20))
      fallbackRan == {"readability", "scan"} \cup (IF useBody THEN {"body"} ELSE {})
  IN IF Sufficient(article)
       THEN [ ran |-> {"readability"}, stage |-> "readability", kept |-> <<>>,
              title |-> OrElse(article.title, OrElse(doc.title, Untitled)),
              byline |-> article.byline,
              body |-> safeText(article.textContent, max_chars) ]
     ELSE IF Length(Trim(bestContent)) >= 100
       THEN [ ran |-> fallbackRan, stage |-> IF useBody THEN "body" ELSE "scan",
              kept |-> scanned,
              title |-> OrElse(doc.title, Untitled), byline |-> <<>>,
              body |-> safeText(bestContent, max_chars) ]
     ELSE IF Length(paragraphs) > 100
       THEN [ ran |-> fallbackRan \cup {"paragraphs"}, stage |-> "paragraphs",
              kept |-> scanned,
              title |-> OrElse(doc.title, Untitled), byline |-> <<>>,
              body |-> safeText(paragraphs, max_chars) ]
     ELSE [ ran |-> fallbackRan \cup {"paragraphs"}, stage |-> "none",
            kept |-> scanned,
            title |-> <<>>, byline |-> <<>>, body |-> <<>> ]

\* `**${title}**\n\n`, `By: ${byline}\n\n`, the body.
Compose(got) ==
  Run(42, 2) \o got.title \o Run(42, 2) \o Run(10, 2)
    \o (IF got.byline # <<>>
          THEN <<[ch |-> 66, n |-> 1], [ch |-> 121, n |-> 1], [ch |-> 58, n |-> 1],
                 [ch |-> 32, n |-> 1]>> \o got.byline \o Run(10, 2)
          ELSE <<>>)
    \o got.body

\* The threshold at one third.
Garbled_third(extractedContent) ==
  3 * CleanLength(extractedContent) < Length(extractedContent)

\* cleanContent.length < extractedContent.length * 0.5
Garbled(extractedContent) == 2 * CleanLength(extractedContent) < Length(extractedContent)

\* What handleWebFetch does with an ok response: the content-type gate,
\* the binary heuristic, the DOM, the extraction and the final check.
PageResult(u, page, max_chars) ==
  LET contentType == page.contentType
      family == NonHtmlFamily(contentType, FileExtension(u.path))
      got == Extract(page.doc, max_chars)
      extractedContent == Compose(got)
      read == {"gate", "text", "binary"}
      Stopped(kind, via, ran) ==
        [kind |-> kind, via |-> via, extract |-> [NoExtract EXCEPT !.ran = ran]]
      \* The messages with `Page title: ${document.title || "No title"}`.
      Failed(kind, ran) ==
        [ kind |-> kind, via |-> "return",
          extract |-> [NoExtract EXCEPT !.ran = ran, !.kept = got.kept,
                                        !.pageTitle = page.doc.title] ]
  IN IF ~IsHtml(contentType) /\ family # "none"
       THEN Stopped("non_html", "return", {"gate"})
     ELSE IF LooksBinary(page.html)
       THEN Stopped("binary", "return", read)
     ELSE IF ~page.doc.parses
       THEN Stopped("fetch_failed", "catch", read \cup {"dom"})
     ELSE IF got.stage = "none"
       THEN Failed("unextractable", read \cup {"dom"} \cup got.ran)
     ELSE IF Garbled(extractedContent)
       THEN Failed("garbled", read \cup {"dom", "garbled"} \cup got.ran)
     ELSE [ kind |-> "content", via |-> "return",
            extract |-> [ ran |-> read \cup {"dom", "garbled"} \cup got.ran,
                          stage |-> got.stage, kept |-> got.kept,
                          title |-> got.title, byline |-> got.byline,
                          body |-> got.body, text |-> extractedContent,
                          pageTitle |-> <<>> ] ]

\* --------------------------------------------------------- search results
\* rawResults.slice(0, limit), for the limits the callers pass (limit >= 0).
SliceResults_all(rawResults, limit) == rawResults

SliceResults(rawResults, limit) ==
  SubSeq(rawResults, 1, IF limit < Len(rawResults) THEN limit ELSE Len(rawResults))

\* The results mapped and written out: `${index + 1}. **${title}**`, URL,
\* snippet and source of each, then `Found ${results.length} results`.
FormatResults(rawResults, limit) ==
  LET results == SliceResults(rawResults, limit)
  IN [ entries |->
         [ index \in 1..Len(results) |->
             [ number |-> index,
               title |-> safeText(OrElse(results[index].title, NoTitle), 300),
               url |-> results[index].url,
               snippet |-> safeText(results[index].content, 500),
               engine |-> results[index].engine ] ],
       found |-> Len(results) ]

\* ---------------------------------------------------------------- actions
\* A tools/call request arrives: the CallToolRequestSchema handler runs the
\* tool's handler up to its first await.
BeginCall(c, maxRecords) ==
  /\ call[c].pc = "idle"
  /\ \A d \in Slots : d < c => call[d].pc # "idle"
  /\ Len(callHistory) < maxRecords
  /\ solo' = [d \in Slots |->
                IF d = c THEN \A e \in Slots \ {c} : ~InFlight(e) ELSE FALSE]
  /\ UNCHANGED now

StartFetch(c, maxRecords, urls, maxChars) ==
  /\ BeginCall(c, maxRecords)
  /\ \E u \in urls, rc \in RetryArgs, max_chars \in maxChars :
       handleWebFetch(c, [IdleCall EXCEPT !.max_chars = max_chars], u, rc)

StartSearch(c, maxRecords, queries, limits) ==
  /\ BeginCall(c, maxRecords)
  /\ \E q \in queries, limit \in limits : handleWebSearch(c, IdleCall, q, limit)

\* A tools/call request names another tool: the switch throws and the
\* handler's catch answers.
StartUnknown(c, maxRecords) ==
  /\ BeginCall(c, maxRecords)
  /\ call' = [call EXCEPT ![c] =
                Respond([IdleCall EXCEPT !.tool = "unknown"], "unknown_tool", 0, "throw")]
  /\ UNCHANGED <<callHistory, requestTimes, lastSend, lastCheck>>

\* The pacing delay's timer fires.
PaceWake(c) ==
  /\ call[c].pc = "paceWait"
  /\ now >= call[c].wake
  /\ PassGate(c, call[c])
  /\ UNCHANGED <<now, callHistory, solo, lastCheck>>

\* The humanization delay's timer fires.
HumanWake(c) ==
  /\ call[c].pc = "humanWait"
  /\ now >= call[c].wake
  /\ Dispatch(c, call[c])
  /\ UNCHANGED <<now, callHistory, requestTimes, solo, lastCheck>>

\* fetch() settles: a response, or a rejection (timeout, network error).
FetchSettles(c, responses) ==
  /\ call[c].pc = "fetching"
  /\ \E resp \in responses :
       /\ call[c].upnext # NoResponse => resp = call[c].upnext
       /\ LET rec == IF call[c].reqs = 1 THEN [call[c] EXCEPT !.first = resp]
                     ELSE call[c]
              out == PageResult(rec.url, resp.page, rec.max_chars)
          IN IF resp = Timeout
               THEN call' = [call EXCEPT ![c] = Caught(rec, "fetch_failed")]
             ELSE IF resp.status # 200
               THEN IF ShouldRetry(rec.retry_count, resp.status)
                      THEN \E d \in RetryDelays, nxt \in responses :
                             call' = [call EXCEPT ![c] =
                                        [rec EXCEPT !.pc = "retryWait",
                                                    !.wake = now + d,
                                                    !.upnext = nxt]]
                      ELSE call' = [call EXCEPT ![c] =
                                      Finish(rec, "http_error", resp.status)]
             ELSE call' = [call EXCEPT ![c] =
                             [Respond(rec, out.kind, 200, out.via)
                                EXCEPT !.extract = out.extract]]
  /\ UNCHANGED <<now, callHistory, requestTimes, lastSend, solo, lastCheck>>

\* The retry timer fires: return handleWebFetch({...args, retry_count: 1}).
RetryWake(c) ==
  /\ call[c].pc = "retryWait"
  /\ now >= call[c].wake
  /\ handleWebFetch(c, call[c], call[c].url, 1)
  /\ UNCHANGED <<now, solo>>

\* The search backend's fetch settles.
SearchSettles(c, outcomes) ==
  /\ call[c].pc = "searching"
  /\ \E o \in outcomes :
       call' = [call EXCEPT ![c] =
                  IF o.kind = "throw" THEN Caught(call[c], "search_throw")
                  ELSE IF o.kind # "json" THEN Finish(call[c], "search_" \o o.kind, 0)
                  ELSE IF Len(o.results) = 0 THEN Finish(call[c], "search_empty", 0)
                  ELSE [Finish(call[c], "results", 0)
                          EXCEPT !.data = o.results,
                                 !.search = FormatResults(o.results, call[c].limit)]]
  /\ UNCHANGED <<now, callHistory, requestTimes, lastSend, solo, lastCheck>>

\* The response is sent to the client; the slot is free again.
Return(c) ==
  /\ call[c].pc = "done"
  /\ call' = [call EXCEPT ![c] = IdleCall]
  /\ solo' = [solo EXCEPT ![c] = TRUE]
  /\ UNCHANGED <<now, callHistory, requestTimes, lastSend, lastCheck>>

\* Time passes up to the next reading of the clock that is followed.
Tick(offsets) ==
  /\ \E d \in offsets :
       /\ Epoch + d > now
       /\ now' = Epoch + d
  /\ UNCHANGED <<callHistory, requestTimes, call, lastSend, solo, lastCheck>>

\* The same, with every timer firing in the millisecond it is due: time
\* does not pass a pending timer.
Waiting(c) == call[c].pc \in {"paceWait", "humanWait", "retryWait"}

TickPunctual(offsets) ==
  /\ \E d \in offsets :
       /\ Epoch + d > now
       /\ \A c \in Slots : Waiting(c) => Epoch + d <= call[c].wake
       /\ now' = Epoch + d
  /\ UNCHANGED <<callHistory, requestTimes, call, lastSend, solo, lastCheck>>

\* Time reaches the moment the earliest pending timer is due.
TimerDue ==
  /\ \E c \in Slots :
       /\ Waiting(c)
       /\ now < call[c].wake
       /\ \A d \in Slots : Waiting(d) => call[c].wake <= call[d].wake
       /\ now' = call[c].wake
  /\ UNCHANGED <<callHistory, requestTimes, call, lastSend, solo, lastCheck>>

Next ==
  \/ \E c \in QuotaSlots : StartFetch(c, MaxRecords, QuotaUrls, DefaultMaxChars)
  \/ \E c \in QuotaSlots : StartSearch(c, MaxRecords, Queries, DefaultLimit)
  \/ \E c \in QuotaSlots : StartUnknown(c, MaxRecords)
  \/ \E c \in QuotaSlots : PaceWake(c)
  \/ \E c \in QuotaSlots : HumanWake(c)
  \/ \E c \in QuotaSlots : FetchSettles(c, FetchResponses)
  \/ \E c \in QuotaSlots : RetryWake(c)
  \/ \E c \in QuotaSlots : SearchSettles(c, SearchOutcomes)
  \/ \E c \in QuotaSlots : Return(c)
  \/ Tick(QuotaOffsets)

Spec == Init /\ [][Next]_vars

\* Overlapping web_fetch calls at the pacing gate's time scale, with
\* punctual timers.
NextPacing ==
  \/ \E c \in Slots : StartFetch(c, MaxRecordsPacing, PacingUrls, DefaultMaxChars)
  \/ \E c \in Slots : PaceWake(c)
  \/ \E c \in Slots : HumanWake(c)
  \/ \E c \in Slots : FetchSettles(c, PacingResponses)
  \/ \E c \in Slots : RetryWake(c)
  \/ \E c \in Slots : Return(c)
  \/ TickPunctual(PacingOffsets)

SpecPacing == Init /\ [][NextPacing]_vars

\* Calls of both tools over five and a half minutes of the quota windows:
\* readings a second before and at the edge of the burst window, at whole
\* and half minutes of the main window and 300,000 ms after the second one.
NextWindows ==
  \/ \E c \in QuotaSlots : StartFetch(c, MaxRecords, WindowUrls, DefaultMaxChars)
  \/ \E c \in QuotaSlots : StartSearch(c, MaxRecords, Queries, DefaultLimit)
  \/ \E c \in QuotaSlots : PaceWake(c)
  \/ \E c \in QuotaSlots : HumanWake(c)
  \/ \E c \in QuotaSlots : FetchSettles(c, WindowResponses)
  \/ \E c \in QuotaSlots : RetryWake(c)
  \/ \E c \in QuotaSlots : SearchSettles(c, SearchOutcomes)
  \/ \E c \in QuotaSlots : Return(c)
  \/ Tick(WindowOffsets)

SpecWindows == Init /\ [][NextWindows]_vars

\* One web_fetch at a time over the pages, paths and max_chars that take
\* every way through the content handling.
NextContent ==
  \/ \E c \in QuotaSlots : StartFetch(c, MaxRecordsContent, ContentUrls, MaxCharsArgs)
  \/ \E c \in QuotaSlots : HumanWake(c)
  \/ \E c \in QuotaSlots : FetchSettles(c, ContentResponses)
  \/ \E c \in QuotaSlots : Return(c)
  \/ Tick(ContentOffsets)

SpecContent == Init /\ [][NextContent]_vars

\* One web_search at a time over the limits and the backend's answers.
NextSearch ==
  \/ \E c \in QuotaSlots : StartSearch(c, MaxRecordsSearch, Queries, LimitArgs)
  \/ \E c \in QuotaSlots : SearchSettles(c, SearchBackends)
  \/ \E c \in QuotaSlots : Return(c)
  \/ Tick(SearchOffsets)

SpecSearch == Init /\ [][NextSearch]_vars

\* Calls that end in an input error, and no others, over the quota windows.
NextErrors ==
  \/ \E c \in QuotaSlots : StartFetch(c, MaxRecords, ErrorUrls, DefaultMaxChars)
  \/ \E c \in QuotaSlots : StartSearch(c, MaxRecords, NoQuery, DefaultLimit)
  \/ \E c \in QuotaSlots : Return(c)
  \/ Tick(QuotaOffsets)

SpecErrors == Init /\ [][NextErrors]_vars

\* Overlapping calls of both tools at the pacing gate's time scale: time
\* passes from one pending timer to the next.
NextMixed ==
  \/ \E c \in Slots : StartFetch(c, MaxRecordsMixed, WindowUrls, DefaultMaxChars)
  \/ \E c \in Slots : StartSearch(c, MaxRecordsMixed, Queries, DefaultLimit)
  \/ \E c \in Slots : PaceWake(c)
  \/ \E c \in Slots : HumanWake(c)
  \/ \E c \in Slots : FetchSettles(c, WindowResponses)
  \/ \E c \in Slots : RetryWake(c)
  \/ \E c \in Slots : SearchSettles(c, SearchOutcomes)
  \/ \E c \in Slots : Return(c)
  \/ TimerDue

SpecMixed == Init /\ [][NextMixed]_vars

\* Calls of both tools where every timer fires (time reaches
\* the moment it is due, then its callback runs) and every fetch settles:
\* with a response, or with the rejection that AbortSignal.timeout brings
\* after 15 s (search) or 20 s (fetch).
NextLive ==
  \/ \E c \in QuotaSlots : StartFetch(c, MaxRecordsLive, LiveUrls, DefaultMaxChars)
  \/ \E c \in QuotaSlots : StartSearch(c, MaxRecordsLive, Queries, DefaultLimit)
  \/ \E c \in QuotaSlots : PaceWake(c)
  \/ \E c \in QuotaSlots : HumanWake(c)
  \/ \E c \in QuotaSlots : FetchSettles(c, LiveResponses)
  \/ \E c \in QuotaSlots : RetryWake(c)
  \/ \E c \in QuotaSlots : SearchSettles(c, SearchOutcomes)
  \/ \E c \in QuotaSlots : Return(c)
  \/ TickPunctual(LiveOffsets)
  \/ TimerDue

SpecLive ==
  /\ Init
  /\ [][NextLive]_vars
  /\ WF_vars(TimerDue)
  /\ \A c \in QuotaSlots :
       /\ WF_vars(PaceWake(c))
       /\ WF_vars(HumanWake(c))
       /\ WF_vars(FetchSettles(c, LiveResponses))
       /\ WF_vars(RetryWake(c))
       /\ WF_vars(SearchSettles(c, SearchOutcomes))


\* ------------------------------------------------------------ properties
\* Call records whose timestamp lies within the last w ms.
Within(w) == Cardinality({i \in DOMAIN callHistory : now - callHistory[i] < w})

\* checkCallLimit runs for the call in slot c in this step.
Checked(c) == call'[c].checks > call[c].checks
\* The call in slot c passes the pacing gate / sends a request in this step.
Gated(c) == call'[c].gates > call[c].gates
Sent(c) == call'[c].tool = "web_fetch" /\ call'[c].reqs > call[c].reqs

C2_NinthInBurstDenied ==
  [][\A c \in Slots :
       (Checked(c) /\ Within(BURST_WINDOW_MS) >= BURST_LIMIT)
         => /\ call'[c].pc = "done"
            /\ call'[c].result.kind = "burst"
            /\ callHistory' = Pruned(callHistory, now)]_vars

\* A web_fetch has just been denied as the 9th call of the burst window.
C2_Witness ==
  \E c \in Slots :
    /\ call[c].pc = "done"
    /\ call[c].tool = "web_fetch"
    /\ call[c].result.kind = "burst"
    /\ lastCheck.at = now
    /\ Within(BURST_WINDOW_MS) = BURST_LIMIT

\* The latest check came 30,001 ms after a burst denial, no check between.
BurstRelief ==
  /\ lastCheck.burstBefore # 0
  /\ lastCheck.at = lastCheck.burstBefore + BURST_WINDOW_MS + 1

\* C3 as claimed: a call attempted 30,001 ms after a burst denial, with no
\* other call in between, is admitted.
C3_AdmittedAfterBurst == BurstRelief => lastCheck.kind = "ok"

\* C3 as amended: such a call is never denied with the burst-limit message;
\* it is admitted when fewer than 12 records lie within the last 300,000 ms
\* and is otherwise denied with the sustained-quota message.
C3_NoBurstDenialAfterBurst ==
  BurstRelief =>
    \/ /\ lastCheck.kind = "ok"
       /\ Len(callHistory) - 1 < MAX_CALLS_PER_WINDOW
       /\ callHistory[Len(callHistory)] = lastCheck.at
    \/ /\ lastCheck.kind = "rate"
       /\ Len(callHistory) >= MAX_CALLS_PER_WINDOW

\* A call was admitted 30,001 ms after a burst denial.
C3_Witness == BurstRelief /\ lastCheck.kind = "ok"

\* C4 as claimed: a call attempted while 12 call records lie within the
\* last 300,000 ms is denied with the sustained-quota message, which names
\* a positive number of minutes.
C4_ThirteenthRateDenied ==
  [][\A c \in Slots :
       (Checked(c) /\ Within(RATE_LIMIT_WINDOW_MS) >= MAX_CALLS_PER_WINDOW)
         => /\ call'[c].pc = "done"
            /\ call'[c].result.kind = "rate"
            /\ call'[c].result.code >= 1]_vars

\* C4 as amended: such a call is denied; with the burst-limit message when
\* 8 of the records lie within the last 30,000 ms, and otherwise with the
\* sustained-quota message, which names a whole number of minutes >= 1.
C4_ThirteenthDenied ==
  [][\A c \in Slots :
       (Checked(c) /\ Within(RATE_LIMIT_WINDOW_MS) >= MAX_CALLS_PER_WINDOW)
         => /\ call'[c].pc = "done"
            /\ IF Within(BURST_WINDOW_MS) >= BURST_LIMIT
                 THEN call'[c].result.kind = "burst"
                 ELSE /\ call'[c].result.kind = "rate"
                      /\ call'[c].result.code \in 1..5]_vars

\* A 13th call has just been denied with the sustained-quota message.
C4_Witness ==
  \E c \in Slots :
    /\ call[c].pc = "done"
    /\ call[c].result.kind = "rate"
    /\ call[c].result.code >= 1
    /\ lastCheck.at = now
    /\ Within(RATE_LIMIT_WINDOW_MS) = MAX_CALLS_PER_WINDOW
    /\ Within(BURST_WINDOW_MS) < BURST_LIMIT

\* C5: a tool call runs checkCallLimit once and appends at most one call
\* record, a retried web_fetch included.
C5_OneCheckPerCall ==
  \A c \in Slots : call[c].checks <= 1 /\ call[c].recs <= 1

\* C6: a web_fetch whose first attempt gets 503 and whose origin answers
\* the retry with a 200 HTML page returns that page's content, having sent
\* two requests.
C6_RetryReturnsContent ==
  \A c \in Slots :
    ( /\ call[c].pc = "done"
      /\ call[c].tool = "web_fetch"
      /\ call[c].first = [status |-> 503, page |-> NoPage]
      /\ call[c].upnext = [status |-> 200, page |-> HtmlPage] )
      => call[c].result.kind = "content" /\ call[c].reqs = 2

\* C7: no web_fetch call sends more than two requests; the wait for a
\* retry is entered from the first attempt only, and a failed second
\* attempt ends the call with an error.
C7_AtMostTwoRequests ==
  \A c \in Slots :
    /\ call[c].reqs <= 2
    /\ call[c].pc = "retryWait" => call[c].reqs = 1
    /\ (call[c].reqs = 2 /\ call[c].upnext.status # 200)
         => call[c].pc \in {"fetching", "done"}
    /\ (call[c].reqs = 2 /\ call[c].upnext.status # 200 /\ call[c].pc = "done")
         => call[c].result.kind \in {"http_error", "fetch_failed"}

\* A retry was answered with a retryable status again and the call ended.
C7_Witness ==
  \E c \in Slots :
    /\ call[c].pc = "done"
    /\ call[c].reqs = 2
    /\ call[c].result.kind = "http_error"
    /\ call[c].result.code \in RetryStatuses

\* The caller passed no retry_count (it is no documented argument).
PlainArgs(rec) == rec.retry_count = 0 \/ rec.checks = 2

\* C8: the requests of web_fetch calls made one after the other to one
\* hostname, with the documented arguments, are sent at least 1000 ms apart.
C8_DispatchSpacing ==
  [][\A c \in Slots :
       ( /\ Sent(c) /\ PlainArgs(call'[c]) /\ solo'[c]
         /\ lastSend[call'[c].url.host] # 0 )
         => now - lastSend[call'[c].url.host] >= RATE_LIMIT_DELAY]_vars

\* C9: no two web_fetch calls to one hostname pass the pacing gate less
\* than 1000 ms apart.
C9_GateSerialises ==
  [][\A c \in Slots :
       (Gated(c) /\ requestTimes[call'[c].url.host] # 0)
         => now - requestTimes[call'[c].url.host] >= RATE_LIMIT_DELAY]_vars

\* C10: a step changes the last-request entry of a hostname only when a
\* fetch to that hostname passes the gate, and a fetch entering the gate
\* waits, or does not, by its own hostname's entry alone.
C10_PerHostFrame ==
  [][/\ \A h \in Hosts :
          requestTimes'[h] # requestTimes[h]
            => \E c \in Slots : Gated(c) /\ call'[c].url.host = h
     /\ \A c \in Slots :
          (Checked(c) /\ call'[c].pc # "done")
            => LET own == requestTimes[call'[c].url.host]
               IN IF now - own < RATE_LIMIT_DELAY
                    THEN /\ call'[c].pc = "paceWait"
                         /\ call'[c].wake = own + RATE_LIMIT_DELAY
                    ELSE call'[c].gates = call[c].gates + 1]_vars

\* A fetch to b passes the gate undelayed in the very millisecond in which
\* a fetch to a has passed it.
C10_Witness ==
  /\ now = Epoch
  /\ requestTimes["a"] = now
  /\ requestTimes["b"] = now
  /\ \E c \in Slots : call[c].url.host = "b" /\ call[c].gates = 1

\* The response the call in slot c was ended by, and its being an ok one.
Answer(rec) == IF rec.reqs = 2 THEN rec.upnext ELSE rec.first
Got200(c) ==
  /\ call[c].pc = "done"
  /\ call[c].reqs >= 1
  /\ call[c].result.code = 200
  /\ Answer(call[c]).status = 200
ExtractionStages == {"readability", "scan", "body", "paragraphs"}

\* C11: a web_fetch whose ok response has a content type holding neither
\* text/html nor application/xhtml returns the non-extractable message and
\* reaches neither the DOM nor any extraction stage.
C11_NonHtmlNeverExtracted ==
  \A c \in Slots :
    (Got200(c) /\ ~IsHtml(Answer(call[c]).page.contentType))
      => /\ call[c].result.kind = "non_html"
         /\ call[c].extract.ran \cap ({"dom"} \cup ExtractionStages) = {}

\* C12: a web_fetch whose ok response has content type application/pdf
\* returns the non-extractable message and does no DOM parsing, whatever
\* the path of the URL.
C12_PdfRejected ==
  \A c \in Slots :
    (Got200(c) /\ Answer(call[c]).page.contentType = "application/pdf")
      => /\ call[c].result.kind = "non_html"
         /\ call[c].extract.ran = {"gate"}
         /\ call[c].extract.text = <<>>

\* A PDF served from a path without a file extension was rejected.
C12_Witness ==
  \E c \in Slots :
    /\ Got200(c)
    /\ Answer(call[c]).page.contentType = "application/pdf"
    /\ call[c].url.path = "/"
    /\ call[c].result.kind = "non_html"

\* More than 10% of the body's characters are control or high-byte ones.
OverTenPercent(html) ==
  10 * Sum([i \in 1..Len(html) |->
              IF html[i].ch \in (0..8) \cup (14..31) \cup (127..255)
                THEN html[i].n ELSE 0])
    > Length(html)

\* C13: a body of which more than 10% of the characters are control or
\* high-byte characters is rejected with a message before the DOM is built,
\* whatever the content type: by the binary-data message when the content
\* type is an HTML one.
C13_BinaryRejected ==
  \A c \in Slots :
    (Got200(c) /\ OverTenPercent(Answer(call[c]).page.html))
      => /\ call[c].result.kind \in {"binary", "non_html"}
         /\ IsHtml(Answer(call[c]).page.contentType)
              => call[c].result.kind = "binary"
         /\ call[c].extract.ran \cap ({"dom"} \cup ExtractionStages) = {}
         /\ call[c].extract.text = <<>>

\* An HTML response with 20% high bytes got the binary-data message.
C13_Witness ==
  \E c \in Slots :
    /\ Got200(c)
    /\ Answer(call[c]).page.contentType = "text/html; charset=utf-8"
    /\ Answer(call[c]).page.html = Letters(8) \o Run(233, 2)
    /\ call[c].result.kind = "binary"

\* The page of the call in slot c went through the DOM, the primary
\* extractor gave fewer than 100 characters and region i of the scan is a
\* <main> element with 500 characters of text.
ThinArticleAndMain(c, i) ==
  LET doc == Answer(call[c]).page.doc
  IN /\ Got200(c)
     /\ "dom" \in call[c].extract.ran
     /\ doc.parses
     /\ Length(Trim(doc.article.textContent)) < 100
     /\ i \in DOMAIN doc.regions
     /\ doc.regions[i].selector = "main"
     /\ Length(Trim(doc.regions[i].text)) = 500

\* C20 as claimed: such a call returns the <main> element's text (with its
\* whitespace normalised and cut to max_chars, as every body is).
C20_MainTextReturned ==
  \A c \in Slots :
    \A i \in 1..2 :
      ThinArticleAndMain(c, i)
        => /\ call[c].result.kind = "content"
           /\ call[c].extract.body =
                safeText(Answer(call[c]).page.doc.regions[i].text, call[c].max_chars)

\* C20 as amended: when no matched element has a longer text than that
\* <main> element and none matched before it has one as long, the body is
\* the <main> element's text, whitespace-normalised and cut to max_chars,
\* and not the primary extractor's output; unless less than half of the
\* composed output is printable ASCII, and then the encoding-problem message
\* is returned with no content.
C20_LongestRegionReturned ==
  \A c \in Slots :
    \A i \in 1..2 :
      LET doc == Answer(call[c]).page.doc
          main == safeText(doc.regions[i].text, call[c].max_chars)
          title == IF doc.title # <<>> THEN doc.title ELSE Untitled
          composed == Run(42, 2) \o title \o Run(42, 2) \o Run(10, 2) \o main
          printable ==
            Sum([k \in 1..Len(composed) |->
                   IF composed[k].ch \in (32..126) \cup {9, 10, 13}
                     THEN composed[k].n ELSE 0])
      IN ( /\ ThinArticleAndMain(c, i)
           /\ \A j \in DOMAIN doc.regions :
                /\ Length(doc.regions[j].text) <= Length(doc.regions[i].text)
                /\ j < i => Length(doc.regions[j].text) < Length(doc.regions[i].text) )
           => IF 2 * printable < Length(composed)
                THEN /\ call[c].result.kind = "garbled"
                     /\ call[c].extract.body = <<>>
                ELSE /\ call[c].result.kind = "content"
                     /\ call[c].extract.stage = "scan"
                     /\ call[c].extract.body = main
                     /\ call[c].extract.text = composed

\* The primary extractor gave 50 characters and the <main> element's 500
\* characters, between whitespace, came back normalised.
C20_Witness ==
  \E c \in Slots :
    /\ ThinArticleAndMain(c, 1)
    /\ Answer(call[c]).page.doc.article.textContent = Letters(50)
    /\ Answer(call[c]).page.doc.regions = <<[selector |-> "main", text |-> Padded(500)]>>
    /\ call[c].result.kind = "content"
    /\ call[c].extract.body = Letters(500)

\* C14: every call that has ended carries a response with one text item,
\* and a web_search or web_fetch call was not left by an exception: its
\* failures (denial, input error, HTTP status, timeout, exception, content
\* error) are returned by the handler or by its catch block.
C14_FailuresAreResponses ==
  \A c \in Slots :
    call[c].pc = "done"
      => /\ call[c].result.kind # "none"
         /\ call[c].result.content = 1
         /\ call[c].tool \in {"web_search", "web_fetch"}
              => call[c].result.via \in {"return", "catch"}

\* A fetch was rejected (timeout, network error) and the handler's catch
\* block returned the failure as a response.
C14_Witness ==
  \E c \in Slots :
    /\ call[c].pc = "done"
    /\ call[c].tool = "web_fetch"
    /\ Answer(call[c]) = Timeout
    /\ call[c].result = [kind |-> "fetch_failed", code |-> 0, content |-> 1, via |-> "catch"]

\* The url argument is present and is malformed or of another scheme.
BadUrl(u) == u.scheme \notin {"none", "http", "https"}

\* C15 as claimed: a web_fetch with such a url ends at once with the
\* invalid-URL message; it waits on no delay, leaves the per-hostname map
\* alone, sends no request and is not retried.
C15_InvalidUrlMessage ==
  [][\A c \in Slots :
       (Checked(c) /\ call'[c].tool = "web_fetch" /\ BadUrl(call'[c].url))
         => /\ call'[c].pc = "done"
            /\ call'[c].result.kind = "invalid_url"
            /\ call'[c].gates = 0 /\ call'[c].reqs = 0 /\ call'[c].checks = 1
            /\ requestTimes' = requestTimes /\ lastSend' = lastSend]_vars

\* C15 as amended: such a call ends at once, with the admission denial when
\* the admission check denies it and with the invalid-URL message otherwise;
\* either way it waits on no delay, leaves the per-hostname map alone, sends
\* no request and is not retried.
C15_InvalidUrlEndsAtOnce ==
  [][\A c \in Slots :
       (Checked(c) /\ call'[c].tool = "web_fetch" /\ BadUrl(call'[c].url))
         => /\ call'[c].pc = "done"
            /\ call'[c].result.kind =
                 IF Within(BURST_WINDOW_MS) >= BURST_LIMIT THEN "burst"
                 ELSE IF Within(RATE_LIMIT_WINDOW_MS) >= MAX_CALLS_PER_WINDOW THEN "rate"
                 ELSE "invalid_url"
            /\ call'[c].gates = 0 /\ call'[c].reqs = 0 /\ call'[c].checks = 1
            /\ requestTimes' = requestTimes /\ lastSend' = lastSend]_vars

\* A web_fetch of an ftp: URL has ended with the invalid-URL message, after
\* a fetch to the same hostname had set the hostname's entry.
C15_Witness ==
  \E c \in Slots :
    /\ call[c].pc = "done"
    /\ call[c].url = [scheme |-> "ftp", host |-> "a", path |-> "/"]
    /\ call[c].result.kind = "invalid_url"
    /\ requestTimes["a"] # 0
    /\ call[c].gates = 0 /\ call[c].reqs = 0

\* C16: a call that ended with an admission denial has appended no call
\* record, sent no request and not touched the per-hostname map.
C16_DeniedCallFrame ==
  \A c \in Slots :
    (call[c].pc = "done" /\ call[c].result.kind \in {"burst", "rate"})
      => call[c].recs = 0 /\ call[c].reqs = 0 /\ call[c].gates = 0

\* A web_search or web_fetch tool call arrives in slot c in this step.
Arrives(c) ==
  /\ call[c].pc = "idle"
  /\ call'[c].tool \in {"web_search", "web_fetch"}

\* C17: a tool call that arrives 300,000 ms or more after the tool call
\* before it (or is the first one) is admitted, whatever the admission
\* controller had recorded or denied until then.
C17_ResetAfterIdle ==
  [][\A c \in Slots :
       (Arrives(c) /\ now - lastCheck.callAt >= RATE_LIMIT_WINDOW_MS)
         => /\ ~call'[c].limitCheck.limited
            /\ call'[c].recs = 1
            /\ callHistory' # <<>>
            /\ callHistory'[Len(callHistory')] = now]_vars

\* A call was admitted 300,000 ms after a call that the burst limit denied;
\* every older record is gone.
C17_Witness ==
  /\ lastCheck.kind = "ok"
  /\ lastCheck.at = now
  /\ lastCheck.callAt = now
  /\ lastCheck.burstBefore = now - RATE_LIMIT_WINDOW_MS
  /\ callHistory = <<now>>

\* C18: an admitted check returns the remaining-calls warning, naming 12
\* minus the records after this call, when that number is <= 2; otherwise
\* the quick-calls warning, naming 8 minus the records of the last
\* 30,000 ms (this call among them), when that number is <= 2; otherwise
\* no warning.
C18_OneWarning ==
  [][\A c \in Slots :
       (Checked(c) /\ ~call'[c].limitCheck.limited)
         => LET remaining == MAX_CALLS_PER_WINDOW - Len(callHistory')
                headroom ==
                  BURST_LIMIT - Cardinality({i \in DOMAIN callHistory' :
                                               now - callHistory'[i] < BURST_WINDOW_MS})
                given == call'[c].limitCheck
            IN IF remaining <= 2
                 THEN given.warning = "remaining" /\ given.left = remaining
               ELSE IF headroom <= 2
                 THEN given.warning = "quick" /\ given.left = headroom
               ELSE given.warning = "none"]_vars

\* Both numbers were <= 2 and the remaining-calls warning was given.
C18_Witness ==
  \E c \in Slots :
    /\ InFlight(c) \/ call[c].pc = "done"
    /\ lastCheck.at = now
    /\ call[c].limitCheck.warning = "remaining"
    /\ call[c].limitCheck.left = MAX_CALLS_PER_WINDOW - Len(callHistory)
    /\ Len(callHistory) = 10
    /\ Within(BURST_WINDOW_MS) \in {6, 7}

\* C19: a burst denial names ceil((30,000 - age of the oldest record of
\* the burst window) / 1000) seconds, a number from 1 to 30; a sustained
\* denial names ceil((300,000 - age of the oldest retained record) / 60,000)
\* minutes, a number from 1 to 5.
C19_WaitNamed ==
  [][\A c \in Slots :
       Checked(c)
         => LET kept == {callHistory[i] : i \in DOMAIN callHistory}
                          \cap ((now - RATE_LIMIT_WINDOW_MS + 1)..now)
                recent == kept \cap ((now - BURST_WINDOW_MS + 1)..now)
                Oldest(S) == CHOOSE ts \in S : \A other \in S : ts <= other
                named == call'[c].result.code
            IN /\ call'[c].result.kind = "burst"
                    => LET left == BURST_WINDOW_MS - (now - Oldest(recent))
                       IN /\ named \in 1..30
                          /\ (named - 1) * 1000 < left /\ left <= named * 1000
               /\ call'[c].result.kind = "rate"
                    => LET left == RATE_LIMIT_WINDOW_MS - (now - Oldest(kept))
                       IN /\ named \in 1..5
                          /\ (named - 1) * 60000 < left /\ left <= named * 60000]_vars

\* A sustained denial named 1 minute: the oldest of 12 records, of two
\* ages, is 240,000 ms old.
C19_Witness ==
  \E c \in Slots :
    /\ call[c].pc = "done"
    /\ call[c].result.kind = "rate"
    /\ call[c].result.code = 1
    /\ lastCheck.at = now
    /\ callHistory[1] = now - 240000
    /\ callHistory[Len(callHistory)] > callHistory[1]

\* C21: a web_search with limit L in 1..20 whose backend returned n >= 1
\* results answers with min(L, n) entries, numbered 1..min(L, n) in the
\* backend's order, and "Found min(L, n) results".
C21_LimitedResults ==
  \A c \in Slots :
    (call[c].pc = "done" /\ call[c].tool = "web_search"
       /\ call[c].data # <<>> /\ call[c].limit \in 1..20)
      => LET n == Len(call[c].data)
             m == IF call[c].limit < n THEN call[c].limit ELSE n
             entries == call[c].search.entries
         IN /\ call[c].result.kind = "results"
            /\ Len(entries) = m
            /\ \A i \in 1..m : /\ entries[i].number = i
                                /\ entries[i].url = call[c].data[i].url
            /\ call[c].search.found = m

\* The backend returned 5 results to a search with limit 3.
C21_Witness ==
  \E c \in Slots :
    /\ call[c].pc = "done"
    /\ call[c].limit = 3
    /\ Len(call[c].data) = 5
    /\ call[c].search.found = 3

\* C22: if every timer fires and every fetch settles, a web_fetch or
\* web_search call that has started returns its one response; handleWebFetch
\* is entered at most twice per call and handleWebSearch once.
C22_EveryCallReturns ==
  /\ [](\A c \in Slots :
          /\ call[c].checks <= (IF call[c].tool = "web_fetch" THEN 2 ELSE 1)
          /\ call[c].pc = "done" => call[c].result.content = 1)
  /\ \A c \in Slots : InFlight(c) ~> (call[c].pc = "done")

\* A web_fetch that passed the pacing gate twice, sent two requests and
\* entered itself again has returned, its timers having fired.
C22_Witness ==
  \E c \in Slots :
    /\ call[c].pc = "done"
    /\ call[c].tool = "web_fetch"
    /\ call[c].checks = 2
    /\ call[c].reqs = 2
    /\ call[c].gates = 2
    /\ now >= lastCheck.callAt + RATE_LIMIT_DELAY + 2000

\* C23: a web_fetch whose first response has a non-ok status other than
\* 429, 502, 503 and 504 sends that one request only, enters handleWebFetch
\* once and returns the error message of that status.
C23_NoRetryOnOtherStatus ==
  \A c \in Slots :
    (call[c].tool = "web_fetch"
       /\ call[c].first.status \in ErrorStatuses \ {429, 502, 503, 504})
      => /\ call[c].pc = "done"
         /\ call[c].reqs = 1
         /\ call[c].checks = 1
         /\ call[c].result.kind = "http_error"
         /\ call[c].result.code = call[c].first.status

\* A first response of 500 was answered with its error after one request.
C23_Witness ==
  \E c \in Slots :
    /\ call[c].pc = "done"
    /\ call[c].first.status = 500
    /\ call[c].retry_count = 0
    /\ call[c].reqs = 1
    /\ call[c].result = [kind |-> "http_error", code |-> 500, content |-> 1, via |-> "return"]

\* C24: whatever the arguments of a web_fetch call, its first request is
\* sent out of a humanization delay of at least 500 ms that followed the
\* gate pass, and its retry request is sent without one.
C24_HumanizedFirstRequest ==
  [][\A c \in Slots :
       Sent(c)
         => IF call'[c].reqs = 1
              THEN /\ call[c].pc = "humanWait"
                   /\ now - requestTimes[call[c].url.host] >= 500
              ELSE call[c].pc # "humanWait"]_vars

\* The call in slot c got an ok response whose document reached the
\* extraction stages.
Extracted(c) == Got200(c) /\ "readability" \in call[c].extract.ran

\* The matched elements whose text is longer than 200 characters, and of
\* them the first of the longest.
Above200(regions) == {i \in DOMAIN regions : Length(regions[i].text) > 200}
Longest(regions) ==
  CHOOSE i \in Above200(regions) :
    \A j \in Above200(regions) :
      /\ Length(regions[j].text) <= Length(regions[i].text)
      /\ j < i => Length(regions[j].text) < Length(regions[i].text)

\* The text a stage hands on.
StageText(doc, stage) ==
  CASE stage = "readability" -> doc.article.textContent
    [] stage = "scan" -> doc.regions[Longest(doc.regions)].text
    [] stage = "body" -> doc.bodyText
    [] stage = "paragraphs" ->
         Join(SelectSeq(doc.paragraphs, LAMBDA text : Length(Trim(text)) > 20))

\* The body of a content result is the text of one stage that ran; the
\* region scan ran only after a primary extraction of at most 100
\* characters; paragraph scraping ran only on a candidate under 100.
OneStageInOrder(c) ==
  LET doc == Answer(call[c]).page.doc
      got == call[c].extract
  IN /\ call[c].result.kind = "content"
          => /\ got.stage \in ExtractionStages \cap got.ran
             /\ got.body = safeText(StageText(doc, got.stage), call[c].max_chars)
     /\ "scan" \in got.ran => Length(Trim(doc.article.textContent)) <= 100
     /\ "body" \in got.ran => "scan" \in got.ran
     /\ "paragraphs" \in got.ran
          => "body" \in got.ran /\ Length(Trim(doc.bodyText)) < 100

C26_LongestOfAtLeast200 ==
  \A c \in QuotaSlots :
    (Extracted(c) /\ "scan" \in call[c].extract.ran)
      => LET regions == Answer(call[c]).page.doc.regions
             eligible == {i \in DOMAIN regions : Length(regions[i].text) >= 200}
             kept == call[c].extract.kept
         IN IF eligible = {} THEN kept = <<>>
            ELSE \E i \in eligible :
                   /\ kept = regions[i].text
                   /\ \A j \in eligible :
                        Length(regions[j].text) <= Length(regions[i].text)

\* C27: when less than half of the composed output (title, byline, body)
\* is printable ASCII, the call returns the encoding-problem message, which
\* names the page title, and no title line, byline or body of the extracted
\* content, whichever stage the body came from.
C27_GarbledOverrides ==
  \A c \in QuotaSlots :
    Extracted(c)
      => LET page == Answer(call[c]).page
             got == Extract(page.doc, call[c].max_chars)
             composed == Compose(got)
             stripped ==
               Sum([k \in 1..Len(composed) |->
                      IF composed[k].ch \in (32..126) \cup {9, 10, 13}
                        THEN composed[k].n ELSE 0])
         IN (got.stage # "none" /\ 2 * stripped < Length(composed))
              => /\ call[c].result.kind = "garbled"
                 /\ call[c].extract.text = <<>>
                 /\ call[c].extract.body = <<>>
                 /\ call[c].extract.byline = <<>>
                 /\ call[c].extract.title = <<>>
                 /\ call[c].extract.pageTitle = page.doc.title

\* Primary extraction succeeded with 45 letters and 60 CJK characters:
\* 58 of the 118 characters of the composed output are printable ASCII, and
\* the encoding-problem message came back.
C27_Witness ==
  \E c \in QuotaSlots :
    /\ Extracted(c)
    /\ call[c].extract.ran \cap ExtractionStages = {"readability"}
    /\ Answer(call[c]).page.doc.article.textContent = Letters(45) \o Wide(60)
    /\ call[c].result.kind = "garbled"
    /\ call[c].extract.text = <<>>

\* C28: a step of a web_search call leaves every hostname's pacing entry
\* (and last request time) as it was; a search never passes the gate and
\* never waits on a timer: its request to the backend leaves in the step
\* in which the call arrives, whatever the pacing entries hold.
C28_SearchOutsideGate ==
  [][\A c \in Slots :
       (call'[c].tool = "web_search" /\ call'[c] # call[c])
         => /\ requestTimes' = requestTimes
            /\ lastSend' = lastSend
            /\ call'[c].gates = 0
            /\ call'[c].wake = 0
            /\ call'[c].pc \in {"searching", "done"}
            /\ (call[c].pc = "idle" /\ call'[c].pc = "searching")
                  => call'[c].reqs = 1]_vars

\* A search and a fetch arrived in the same millisecond, within a second
\* of a gate pass to the fetch's host: the search's request has left while
\* the fetch waits at the gate.
C28_Witness ==
  \E c, d \in Slots :
    /\ call[c].tool = "web_search"
    /\ call[c].pc = "searching"
    /\ call[c].reqs = 1
    /\ call[d].pc = "paceWait"
    /\ call[d].wake > now
    /\ callHistory[Len(callHistory)] = now
    /\ callHistory[Len(callHistory) - 1] = now

InputErrors == {"missing_query", "missing_url", "invalid_url"}

\* C29: a call that ends in an input error was admitted first: it has
\* appended its call record to the records of the last 300,000 ms, and it
\* has sent no request and passed no gate.
C29_InputErrorsRecorded ==
  [][\A c \in Slots :
       (call[c].pc = "idle" /\ call'[c].result.kind \in InputErrors)
         => /\ call'[c].recs = 1
            /\ callHistory' =
                 Append(SelectSeq(callHistory,
                                  LAMBDA ts : now - ts < RATE_LIMIT_WINDOW_MS), now)
            /\ Len(callHistory') <= MAX_CALLS_PER_WINDOW
            /\ Within(BURST_WINDOW_MS) < BURST_LIMIT
            /\ call'[c].reqs = 0
            /\ call'[c].gates = 0
            /\ requestTimes' = requestTimes
            /\ lastSend' = lastSend]_vars

\* Twelve input-error calls, the only calls made, have used up the
\* sustained quota: the thirteenth call is denied, no request having been
\* sent.
C29_Witness ==
  \E c \in Slots :
    /\ call[c].pc = "done"
    /\ call[c].result.kind = "rate"
    /\ Len(callHistory) = MAX_CALLS_PER_WINDOW
    /\ \A h \in Hosts : lastSend[h] = 0 /\ requestTimes[h] = 0

====
